---- MODULE Spec2Model ----
(***************************************************************************)
(* Model of mollusk-helper: the in-memory account store with snapshot and  *)
(* restore (src/src/account_store.rs), the context's store accessors       *)
(* (src/src/context.rs) and the three transaction modes of                 *)
(* TransactionBuilder (src/src/transaction.rs).                            *)
(*                                                                         *)
(* One caller drives one context.  A transaction is modelled at the        *)
(* granularity of the code's steps: the entry (empty check and snapshot),  *)
(* one loop iteration per instruction (adapter call, accumulation, the     *)
(* mode's branch) and the exit (restore decision and return).              *)
(***************************************************************************)
EXTENDS Integers, Sequences, FiniteSets, TLC

\* ------------------------------------------------------------------ bounds
\* Longest instruction list a builder is given.
MaxInstr == 2
\* Largest balance an account holds (the scaled-down u64::MAX of lamports): the
\* caller funds up to it and the engine rejects a credit that would exceed it.
MaxLamports == 1
\* Largest per-instruction metric the engine reports (low limb, see U64).
MaxUnits == 1

\* ------------------------------------------------------------ value domains
Addresses == {"alice", "bob"}
Owners == {"system", "token"}

\* solana Account, reduced to the fields the helper reads or writes.
Account == [lamports : 0..MaxLamports, owner : Owners]

\* Account::default() as the engine loads it for an address the store lacks.
DefaultAccount == [lamports |-> 0, owner |-> "system"]

\* account::system_account_with_lamports
system_account_with_lamports(lamports) == [lamports |-> lamports, owner |-> "system"]

\* Option<T>: None is the empty sequence, Some(x) the one-element sequence.
None == <<>>
Some(x) == <<x>>

\* A u64 in two limbs, value = hi * 2^62 + lo with lo < 2^31: the additions of
\* the model never carry out of lo, and hi wraps at 2^64 = 4 * 2^62.
U64HiMod == 4
U64(h, l) == [hi |-> h, lo |-> l]
U64Zero == U64(0, 0)
\* u64 `+=` as a release build computes it (wrapping).
U64Add(a, b) == U64((a.hi + b.hi) % U64HiMod, a.lo + b.lo)

\* Whether a + b leaves the u64 range.
AddOverflows(a, b) == a.hi + b.hi >= U64HiMod

\* A run whose metrics stay far below 2^62, where the build makes no
\* difference.
NarrowSetup == [overflow_checks |-> FALSE, metric_his |-> {0}]

\* The runs whose engine also reports metrics of 2^63 and more: in a build
\* without overflow checks (`+=` wraps) and in one with them (`+=` panics).
WideSetups ==
    { [overflow_checks |-> b, metric_his |-> {0, U64HiMod \div 2}] : b \in BOOLEAN }

\* -------------------------------------------------------------------- state
VARIABLES
    accounts,               \* context.account_store: the live map
    pc,                     \* where the caller is
    mode,                   \* which of the three entry points is running
    instructions,           \* TransactionBuilder.instructions
    index,                  \* zero-based position of the next instruction
    snapshot,               \* the local `snapshot`: None until taken, None once moved
    instruction_results,    \* the local Vec of results
    total_compute_units,    \* the local running total
    total_execution_time,   \* the local running total
    any_failed,             \* execute_allow_failures' flag
    ret,                    \* the value returned to the caller, None while running
    pre,                    \* history: the store when the entry point was called
    log,                    \* history: store-level events of the current transaction
    keypairs,               \* MolluskContextHelper.keypairs: name -> Keypair
    last_op,                \* history: the caller's latest direct operation and its answer
    ledger,                 \* history: the caller's writes and the committed transactions
    lock,                   \* the RwLock around keypairs: its holders, the poison
                            \* flag, and the registry call waiting for it
    trail,                  \* history, kept where it starts at "start": "committed"
                            \* once a transaction has committed, "written" once the
                            \* caller has written after that
    setup,                  \* what the run is set up with: whether the build checks
                            \* integer overflow, and the high limbs of the metrics
                            \* the engine reports
    peer                    \* a second strict transaction on the same store: where
                            \* it is, its snapshot, its instruction, its outcome

vars == <<accounts, pc, mode, instructions, index, snapshot, instruction_results,
          total_compute_units, total_execution_time, any_failed, ret, pre, log,
          keypairs, last_op, ledger, lock, trail, setup, peer>>

locals == <<index, snapshot, instruction_results, total_compute_units,
            total_execution_time, any_failed>>

\* ------------------------------------------------------------ account store
\* InMemoryAccountStore.accounts is a HashMap<Address, Account>: a function
\* whose DOMAIN is the set of keys present.
EmptyStore == [a \in {} |-> DefaultAccount]

\* HashMap::insert
Insert(store, address, account) ==
    [a \in (DOMAIN store) \cup {address} |-> IF a = address THEN account ELSE store[a]]

\* Mutant of add_account: an address that already holds a record keeps it.
add_account_if_absent(store, address, account) ==
    IF address \in DOMAIN store THEN store ELSE Insert(store, address, account)

\* InMemoryAccountStore::add_account
add_account(store, address, account) == Insert(store, address, account)

\* AccountStore::store_account (the engine's write path)
store_account(store, address, account) == Insert(store, address, account)

\* AccountStore::get_account
get_account(store, address) ==
    IF address \in DOMAIN store THEN Some(store[address]) ELSE None

\* Mutant of get_balance: an absent address has balance 0.
get_balance_or_zero(store, address) ==
    IF address \in DOMAIN store THEN Some(store[address].lamports) ELSE Some(0)

\* InMemoryAccountStore::get_balance
get_balance(store, address) ==
    IF address \in DOMAIN store THEN Some(store[address].lamports) ELSE None

\* Mutant of snapshot_accounts: accounts with a zero balance are not copied.
snapshot_accounts_funded_only(store) ==
    [a \in { x \in DOMAIN store : store[x].lamports > 0 } |-> store[a]]

\* InMemoryAccountStore::snapshot: a clone of the map, entry by entry.
snapshot_accounts(store) == [a \in DOMAIN store |-> store[a]]

\* Mutant of restore_accounts: the snapshot's entries are written over the live
\* map, which keeps the addresses inserted since.
restore_accounts_merge(store, snap) ==
    [a \in (DOMAIN store) \cup (DOMAIN snap) |->
        IF a \in DOMAIN snap THEN snap[a] ELSE store[a]]

\* InMemoryAccountStore::restore: the live map is replaced by the snapshot.
restore_accounts(store, snap) == snap

\* ------------------------------------------------------- execution adapter
\* Instructions the caller builds: a system transfer, or an instruction for a
\* program the engine does not know.
Transfers ==
    { [program |-> "system", from |-> f, to |-> t, lamports |-> l] :
        f \in Addresses, t \in Addresses, l \in 1..MaxLamports }
Instructions ==
    { ix \in Transfers : ix.from # ix.to }
    \cup { [program |-> "unknown", from |-> "alice", to |-> "bob", lamports |-> 1] }

\* The account the engine works on for an address.
Load(store, address) ==
    IF address \in DOMAIN store THEN store[address] ELSE DefaultAccount

\* ProgramResult of the engine for an instruction on a store.
ProgramResultOf(store, ix) ==
    IF ix.program # "system" THEN "UnknownError"
    ELSE IF Load(store, ix.from).owner # "system" THEN "Failure"
    ELSE IF Load(store, ix.from).lamports < ix.lamports THEN "Failure"
    ELSE IF Load(store, ix.to).lamports + ix.lamports > MaxLamports THEN "Failure"
    ELSE "Success"

\* raw_result: Ok, or the InstructionError of the failure.
RawResultOf(store, ix) ==
    IF ix.program # "system" THEN "UnsupportedProgramId"
    ELSE IF Load(store, ix.from).owner # "system" THEN "InvalidArgument"
    ELSE IF Load(store, ix.from).lamports < ix.lamports THEN "InsufficientFunds"
    ELSE IF Load(store, ix.to).lamports + ix.lamports > MaxLamports THEN "ArithmeticOverflow"
    ELSE "Ok"

\* The store after a successful transfer: both accounts are written back.
TransferStore(store, ix) ==
    LET from == Load(store, ix.from)
        to == Load(store, ix.to)
    IN  store_account(
            store_account(store, ix.from,
                          [from EXCEPT !.lamports = from.lamports - ix.lamports]),
            ix.to, [to EXCEPT !.lamports = to.lamports + ix.lamports])

\* The accounts of a failing instruction written back as the engine loaded
\* them: an address the store lacked appears with the default account.
FlushedStore(store, ix) ==
    store_account(store_account(store, ix.from, Load(store, ix.from)),
                  ix.to, Load(store, ix.to))

\* The debit of a transfer written back without its credit.
DebitedStore(store, ix) ==
    LET from == Load(store, ix.from)
        debit == IF from.lamports < ix.lamports THEN from.lamports ELSE ix.lamports
    IN  store_account(FlushedStore(store, ix), ix.from,
                      [from EXCEPT !.lamports = from.lamports - debit])

\* The stores a failing instruction may leave behind: untouched, or partially
\* mutated (the engine's contract promises nothing about a failed call).
FailureStores(store, ix) ==
    {store, FlushedStore(store, ix), DebitedStore(store, ix)}

\* Metrics the engine reports for one instruction: compute units and
\* execution time vary independently of the outcome.
Metrics ==
    { [compute_units_consumed |-> U64(h, c), execution_time |-> U64(g, MaxUnits - c)] :
        c \in 0..MaxUnits, h \in setup.metric_his, g \in setup.metric_his }

\* MolluskContextHelper::process_instruction_internal: every outcome
\* <<store after the call, InstructionResult>> of one adapter call.
process_instruction_internal(store, ix) ==
    { [accounts |-> s,
       result |-> [program_result |-> ProgramResultOf(store, ix),
                   raw_result |-> RawResultOf(store, ix),
                   compute_units_consumed |-> m.compute_units_consumed,
                   execution_time |-> m.execution_time]] :
        s \in (IF ProgramResultOf(store, ix) = "Success"
               THEN {TransferStore(store, ix)}
               ELSE FailureStores(store, ix)),
        m \in Metrics }

\* Mutant of is_err: only a program-reported failure counts as an error.
is_err_failure_only(program_result) == program_result = "Failure"

\* ProgramResult::is_err / is_ok
is_err(program_result) == program_result # "Success"

is_ok(program_result) == program_result = "Success"

\* ------------------------------------------------------ TransactionResult
TransactionResult(results, cu, time) ==
    [instruction_results |-> results,
     total_compute_units |-> cu,
     total_execution_time |-> time]

\* Iterator::all over the results, scanning from the left.
RECURSIVE all_ok(_, _)
all_ok(results, i) ==
    IF i > Len(results) THEN TRUE
    ELSE IF is_ok(results[i].program_result) THEN all_ok(results, i + 1)
    ELSE FALSE

\* Mutant of is_success: only the last result is looked at.
is_success_last(tr) ==
    \/ Len(tr.instruction_results) = 0
    \/ is_ok(tr.instruction_results[Len(tr.instruction_results)].program_result)

\* TransactionResult::is_success
is_success(tr) == all_ok(tr.instruction_results, 1)

\* Iterator::position over the results: the zero-based index of the first hit.
RECURSIVE position_err(_, _)
position_err(results, i) ==
    IF i > Len(results) THEN None
    ELSE IF is_err(results[i].program_result) THEN Some(i - 1)
    ELSE position_err(results, i + 1)

\* Mutant of failed_at: the last failing entry instead of the first.
failed_at_last(tr) ==
    LET bad == { i \in 1..Len(tr.instruction_results) :
                    is_err(tr.instruction_results[i].program_result) }
    IN  IF bad = {} THEN None
        ELSE Some((CHOOSE i \in bad : \A j \in bad : j <= i) - 1)

\* TransactionResult::failed_at
failed_at(tr) == position_err(tr.instruction_results, 1)

\* TransactionResult::last_result
last_result(tr) ==
    IF Len(tr.instruction_results) = 0 THEN None
    ELSE Some(tr.instruction_results[Len(tr.instruction_results)])

\* ---------------------------------------------------------------- reference
\* The reference the transaction modes are compared with: the instructions
\* handed to the engine one at a time, in list order, with no snapshot and no
\* restore, up to the first one that fails.
RECURSIVE SequentialStore(_, _)
SequentialStore(store, ixs) ==
    IF Len(ixs) = 0 THEN store
    ELSE IF ProgramResultOf(store, Head(ixs)) = "Success"
         THEN SequentialStore(TransferStore(store, Head(ixs)), Tail(ixs))
         ELSE store

\* Zero-based position of the first instruction that fails in that run.
RECURSIVE FirstFailure(_, _, _)
FirstFailure(store, ixs, k) ==
    IF Len(ixs) = 0 THEN None
    ELSE IF ProgramResultOf(store, Head(ixs)) = "Success"
         THEN FirstFailure(TransferStore(store, Head(ixs)), Tail(ixs), k + 1)
         ELSE Some(k)

\* ---------------------------------------------------------- keypair registry
\* Names the caller stores keypairs under, and the keypairs it has.
Names == {"payer", "mint"}
Keypairs == {"kp1", "kp2"}

\* Messages handed to sign_with.
Messages == {"m1", "m2"}

\* HashMap::new for the registry.
EmptyRegistry == [n \in {} |-> "kp1"]

\* Mutant of registry_insert: a name that already resolves keeps its keypair.
registry_insert_if_absent(registry, name, keypair) ==
    IF name \in DOMAIN registry THEN registry
    ELSE [n \in (DOMAIN registry) \cup {name} |->
             IF n = name THEN keypair ELSE registry[n]]

\* RwLock::new: nobody holds the lock, it is not poisoned, nobody waits.
FreeLock == [holders |-> {}, poisoned |-> FALSE, waiting |-> None]

\* The guards the calling operation can hold.
CallerGuards == {"caller_read", "caller_write"}

\* RwLock::write returns once no guard is out; RwLock::read returns once no
\* write guard is out. Until then the calling thread is parked.
MustWait(l, op) ==
    IF op = "store_keypair" THEN l.holders # {}
    ELSE l.holders \cap {"other_write", "caller_write"} # {}

\* HashMap::insert on the registry: the name resolves to the new keypair.
registry_insert(registry, name, keypair) ==
    [n \in (DOMAIN registry) \cup {name} |->
        IF n = name THEN keypair ELSE registry[n]]

\* HashMap::get on the registry.
registry_get(registry, name) ==
    IF name \in DOMAIN registry THEN Some(registry[name]) ELSE None

\* Keypair::pubkey: every keypair has a public key of its own.
pubkey(keypair) == IF keypair = "kp1" THEN "pk1" ELSE "pk2"

\* A signature is a [u8; 64].
SignatureLen == 64

\* Keypair::sign_message(message).into(): the signature depends on the signing
\* keypair and on the message, and is SignatureLen bytes long.
sign_message(keypair, message) ==
    [signer |-> pubkey(keypair), message |-> message, len |-> SignatureLen]

\* TokenAccount::unpack(&account.data): only the data of an account built by
\* the token helpers unpacks; a native token account holds its lamports as the
\* amount.
unpack(account) ==
    IF account.owner = "token"
    THEN [tag |-> "Ok", value |-> account.lamports]
    ELSE [tag |-> "Err", kind |-> "ProgramError", error |-> "InvalidAccountData"]

\* No second transaction has been submitted.
IdlePeer == [pc |-> "idle", snapshot |-> None, instruction |-> None, outcome |-> None]

\* A fresh context: new_without_program_with_timestamp and the like.
Fresh ==
    /\ accounts = EmptyStore
    /\ pc = "idle"
    /\ mode = "none"
    /\ instructions = <<>>
    /\ index = 0
    /\ snapshot = None
    /\ instruction_results = <<>>
    /\ total_compute_units = U64Zero
    /\ total_execution_time = U64Zero
    /\ any_failed = FALSE
    /\ ret = None
    /\ pre = EmptyStore
    /\ log = <<>>
    /\ keypairs = EmptyRegistry
    /\ last_op = None
    /\ ledger = EmptyStore
    /\ lock = FreeLock
    /\ peer = IdlePeer

Init == Fresh /\ trail = "untracked" /\ setup = NarrowSetup

InitHistory == Fresh /\ trail = "start" /\ setup = NarrowSetup

\* A fresh context in either build, with an engine whose metrics use the
\* upper half of the u64 range as well.
InitWide == Fresh /\ trail = "untracked" /\ setup \in WideSetups

\* ----------------------------------------------------------- caller actions
\* MolluskContextHelper::add_account
ctx_add_account(address, account) ==
    /\ pc \in {"idle", "building"}
    /\ accounts' = add_account(accounts, address, account)
    /\ ledger' = add_account(ledger, address, account)
    /\ trail' = IF trail = "committed" THEN "written" ELSE trail
    /\ last_op' = Some([op |-> "add_account", address |-> address,
                        account |-> account,
                        replaced |-> get_account(accounts, address)])
    /\ UNCHANGED <<pc, mode, instructions, locals, ret, pre, log, keypairs, lock, setup, peer>>

\* MolluskContextHelper::fund_account
fund_account(address, lamports) ==
    ctx_add_account(address, system_account_with_lamports(lamports))

\* MolluskContextHelper::get_account: a lookup; the answer is an Option.
ctx_get_account(address) ==
    /\ pc \in {"idle", "building", "done"}
    /\ last_op' = Some([op |-> "get_account", address |-> address,
                        answer |-> get_account(accounts, address)])
    /\ UNCHANGED <<accounts, pc, mode, instructions, locals, ret, pre, log,
                   keypairs, ledger, trail, lock, setup, peer>>

\* MolluskContextHelper::get_balance: a lookup; the answer is an Option.
ctx_get_balance(address) ==
    /\ pc \in {"idle", "building", "done"}
    /\ last_op' = Some([op |-> "get_balance", address |-> address,
                        answer |-> get_balance(accounts, address)])
    /\ UNCHANGED <<accounts, pc, mode, instructions, locals, ret, pre, log,
                   keypairs, ledger, trail, lock, setup, peer>>

\* What a direct operation leaves untouched besides the account store, the
\* registry and its lock: the transaction in progress and its history.
CallerRest == <<mode, instructions, locals, ret, pre, log, ledger, trail, setup, peer>>

CallerFrame == <<pc, lock, CallerRest>>

\* map_err(|_| MolluskHelperError::LockError)
LockErrorAnswer == [tag |-> "Err", kind |-> "LockError"]

\* The body of sign_with once the read guard is held.
sign_with_answer(registry, name, message) ==
    IF registry_get(registry, name) = None
    THEN [tag |-> "Err", kind |-> "KeypairNotFound", error |-> name]
    ELSE [tag |-> "Ok",
          value |-> sign_message(registry_get(registry, name)[1], message)]

\* The body of get_keypair_pubkey once the read guard is held.
get_keypair_pubkey_answer(registry, name) ==
    IF registry_get(registry, name) = None
    THEN [tag |-> "Err", kind |-> "KeypairNotFound", error |-> name]
    ELSE [tag |-> "Ok", value |-> pubkey(registry_get(registry, name)[1])]

\* A registry call from the point where write() / read() has returned: a
\* poisoned lock gives LockError, otherwise the body runs; the guard is a
\* temporary or a local and is dropped before the call returns.
Complete(call) ==
    CASE call.op = "store_keypair" ->
             /\ keypairs' = IF lock.poisoned THEN keypairs
                            ELSE registry_insert(keypairs, call.name, call.keypair)
             /\ last_op' = Some([op |-> "store_keypair", name |-> call.name,
                                 answer |-> IF lock.poisoned THEN LockErrorAnswer
                                            ELSE [tag |-> "Ok"]])
      [] call.op = "sign_with" ->
             /\ keypairs' = keypairs
             /\ last_op' = Some([op |-> "sign_with", name |-> call.name,
                                 message |-> call.message,
                                 answer |-> IF lock.poisoned THEN LockErrorAnswer
                                            ELSE sign_with_answer(keypairs, call.name,
                                                                  call.message)])
      [] call.op = "get_keypair_pubkey" ->
             /\ keypairs' = keypairs
             /\ last_op' = Some([op |-> "get_keypair_pubkey", name |-> call.name,
                                 answer |-> IF lock.poisoned THEN LockErrorAnswer
                                            ELSE get_keypair_pubkey_answer(keypairs,
                                                                           call.name)])

\* A registry call from its start: write() / read() parks the caller while
\* the lock is held against it, and returns at once otherwise.
RegistryCall(call) ==
    /\ IF MustWait(lock, call.op)
       THEN /\ pc' = "blocked"
            /\ lock' = [lock EXCEPT !.waiting = Some([call |-> call, from |-> pc])]
            /\ UNCHANGED <<keypairs, last_op>>
       ELSE /\ Complete(call)
            /\ UNCHANGED <<pc, lock>>
    /\ UNCHANGED <<accounts, CallerRest>>

\* Mutant of store_keypair: try_write, which answers LockError when the lock
\* is held instead of waiting for it.
store_keypair_try_write(name, keypair) ==
    /\ pc \in {"idle", "building"}
    /\ IF MustWait(lock, "store_keypair")
       THEN /\ last_op' = Some([op |-> "store_keypair", name |-> name,
                                answer |-> LockErrorAnswer])
            /\ UNCHANGED <<keypairs, pc, lock>>
       ELSE /\ Complete([op |-> "store_keypair", name |-> name, keypair |-> keypair])
            /\ UNCHANGED <<pc, lock>>
    /\ UNCHANGED <<accounts, CallerRest>>

\* MolluskContextHelper::store_keypair
store_keypair(name, keypair) ==
    /\ pc \in {"idle", "building"}
    /\ RegistryCall([op |-> "store_keypair", name |-> name, keypair |-> keypair])

\* Mutant of sign_with: the read guard is still out when the call returns.
sign_with_keeping_guard(name, message) ==
    /\ pc \in {"idle", "building", "done"}
    /\ ~MustWait(lock, "sign_with")
    /\ Complete([op |-> "sign_with", name |-> name, message |-> message])
    /\ lock' = [lock EXCEPT !.holders = @ \cup {"caller_read"}]
    /\ UNCHANGED <<pc, accounts, CallerRest>>

\* MolluskContextHelper::sign_with
sign_with(name, message) ==
    /\ pc \in {"idle", "building", "done"}
    /\ RegistryCall([op |-> "sign_with", name |-> name, message |-> message])

\* MolluskContextHelper::get_keypair_pubkey
get_keypair_pubkey(name) ==
    /\ pc \in {"idle", "building", "done"}
    /\ RegistryCall([op |-> "get_keypair_pubkey", name |-> name])

\* write() / read() returns to a parked caller once the lock allows it.
unblock ==
    /\ pc = "blocked"
    /\ lock.waiting # None
    /\ ~MustWait(lock, lock.waiting[1].call.op)
    /\ Complete(lock.waiting[1].call)
    /\ pc' = lock.waiting[1].from
    /\ lock' = [lock EXCEPT !.waiting = None]
    /\ UNCHANGED <<accounts, CallerRest>>

\* Another holder of the registry's lock takes a read or a write guard.
other_acquire(guard) ==
    /\ lock.holders = {}
    /\ ~lock.poisoned
    /\ pc \in {"idle", "building", "done"}
    /\ lock' = [lock EXCEPT !.holders = {guard}]
    /\ UNCHANGED <<accounts, keypairs, last_op, pc, CallerRest>>

\* The other holder drops its guard.
other_release ==
    /\ lock.holders \cap {"other_read", "other_write"} # {}
    /\ lock' = [lock EXCEPT !.holders = {}]
    /\ UNCHANGED <<accounts, keypairs, last_op, pc, CallerRest>>

\* The other holder panics with its write guard out: the guard is dropped and
\* the lock is poisoned.
other_panic ==
    /\ "other_write" \in lock.holders
    /\ lock' = [lock EXCEPT !.holders = {}, !.poisoned = TRUE]
    /\ UNCHANGED <<accounts, keypairs, last_op, pc, CallerRest>>

\* MolluskContextHelper::process_instruction: one adapter call outside any
\* transaction; the store keeps whatever the call wrote.
process_instruction(ix) ==
    /\ pc \in {"idle", "building"}
    /\ \E o \in process_instruction_internal(accounts, ix) :
        /\ accounts' = o.accounts
        /\ ledger' = o.accounts
        /\ last_op' = Some([op |-> "process_instruction", instruction |-> ix,
                            answer |->
                                CASE o.result.program_result = "Success" ->
                                         [tag |-> "Ok", value |-> o.result]
                                  [] o.result.program_result = "Failure" ->
                                         [tag |-> "Err", kind |-> "ProgramError",
                                          error |-> o.result.raw_result]
                                  [] o.result.program_result = "UnknownError" ->
                                         [tag |-> "Err", kind |-> "InstructionFailed",
                                          error |-> o.result.raw_result]])
    /\ UNCHANGED <<pc, mode, instructions, locals, ret, pre, log, keypairs, lock, trail, setup, peer>>

\* Mutant of get_token_balance: a missing account is created empty before the
\* error is returned.
get_token_balance_creating(address) ==
    /\ pc \in {"idle", "building", "done"}
    /\ last_op' = Some([op |-> "get_token_balance", address |-> address,
                        answer |-> IF get_account(accounts, address) = None
                                   THEN [tag |-> "Err", kind |-> "AccountNotFound",
                                         error |-> address]
                                   ELSE unpack(get_account(accounts, address)[1])])
    /\ accounts' = IF get_account(accounts, address) = None
                   THEN add_account(accounts, address, DefaultAccount)
                   ELSE accounts
    /\ UNCHANGED <<keypairs, CallerFrame>>

\* MolluskContextHelper::get_token_balance
get_token_balance(address) ==
    /\ pc \in {"idle", "building", "done"}
    /\ last_op' = Some([op |-> "get_token_balance", address |-> address,
                        answer |-> IF get_account(accounts, address) = None
                                   THEN [tag |-> "Err", kind |-> "AccountNotFound",
                                         error |-> address]
                                   ELSE unpack(get_account(accounts, address)[1])])
    /\ UNCHANGED <<accounts, keypairs, CallerFrame>>

\* MolluskContextHelper::transaction / TransactionBuilder::new
transaction ==
    /\ pc \in {"idle", "done"}
    /\ pc' = "building"
    /\ mode' = "none"
    /\ instructions' = <<>>
    /\ index' = 0
    /\ snapshot' = None
    /\ instruction_results' = <<>>
    /\ total_compute_units' = U64Zero
    /\ total_execution_time' = U64Zero
    /\ any_failed' = FALSE
    /\ ret' = None
    /\ log' = <<>>
    /\ pre' = EmptyStore
    /\ last_op' = None
    /\ UNCHANGED <<accounts, keypairs, ledger, trail, lock, setup, peer>>

\* TransactionBuilder::add_instruction
add_instruction(ix) ==
    /\ pc = "building"
    /\ Len(instructions) < MaxInstr
    /\ instructions' = Append(instructions, ix)
    /\ UNCHANGED <<accounts, pc, mode, locals, ret, pre, log, keypairs, last_op, ledger, trail, lock, setup, peer>>

\* Events of the history variable `log`.
EvSnapshot == [op |-> "snapshot"]
EvRestore == [op |-> "restore"]
EvCall(i, ix, result, after) ==
    [op |-> "call", index |-> i, instruction |-> ix, result |-> result, after |-> after]

\* Mutant of Entry: no early return for the empty list.
Entry_no_empty_check(m, tag) ==
    /\ pc = "building"
    /\ mode' = m
    /\ pre' = accounts
    /\ index' = 0
    /\ instruction_results' = <<>>
    /\ total_compute_units' = U64Zero
    /\ total_execution_time' = U64Zero
    /\ any_failed' = FALSE
    /\ ret' = None
    /\ pc' = IF Len(instructions) = 0 THEN "exit" ELSE "loop"
    /\ snapshot' = Some(snapshot_accounts(accounts))
    /\ log' = <<EvSnapshot>>
    /\ last_op' = None
    /\ UNCHANGED <<accounts, instructions, keypairs, ledger, trail, lock, setup, peer>>

\* What the three entry points share: the empty list returns at once with an
\* empty result, otherwise the snapshot is taken and the locals initialised.
Entry(m, tag) ==
    /\ pc = "building"
    /\ mode' = m
    /\ pre' = accounts
    /\ index' = 0
    /\ instruction_results' = <<>>
    /\ total_compute_units' = U64Zero
    /\ total_execution_time' = U64Zero
    /\ any_failed' = FALSE
    /\ IF Len(instructions) = 0
       THEN /\ ret' = Some([tag |-> tag,
                            value |-> TransactionResult(<<>>, U64Zero, U64Zero)])
            /\ pc' = "done"
            /\ snapshot' = None
            /\ log' = <<>>
       ELSE /\ ret' = None
            /\ pc' = "loop"
            /\ snapshot' = Some(snapshot_accounts(accounts))
            /\ log' = <<EvSnapshot>>
    /\ last_op' = None
    /\ UNCHANGED <<accounts, instructions, keypairs, ledger, trail, lock, setup, peer>>

\* Whether one of the two `+=` on the running totals panics for the result
\* of an adapter call: only a build with overflow checks panics.
AddPanics(o) ==
    /\ setup.overflow_checks
    /\ \/ AddOverflows(total_compute_units, o.result.compute_units_consumed)
       \/ AddOverflows(total_execution_time, o.result.execution_time)

\* The panic unwinds out of the entry point right after the adapter call: the
\* store keeps what the call wrote, the locals are dropped, the caller gets
\* no outcome.
Abort(o) ==
    /\ accounts' = o.accounts
    /\ log' = Append(log, EvCall(index, instructions[index + 1], o.result, o.accounts))
    /\ snapshot' = None
    /\ ret' = Some([tag |-> "Panic"])
    /\ pc' = "done"
    /\ UNCHANGED <<index, instruction_results, total_compute_units,
                   total_execution_time, any_failed>>

\* Where the loop goes after the instruction at `index` was pushed.
NextPc == IF index + 1 = Len(instructions) THEN "exit" ELSE "loop"

\* -------------------------------------------------- a second transaction
\* Events of a second transaction in the log of the caller's.
EvPeerCommit(before, after) == [op |-> "peer_commit", before |-> before, after |-> after]
EvPeerRestore == [op |-> "peer_restore"]

\* What a step of the second transaction leaves alone: all of the caller's
\* transaction but the store and the log.
PeerFrame == <<pc, mode, instructions, locals, ret, pre, keypairs, last_op, ledger,
               lock, trail, setup>>

\* execute of a second TransactionBuilder holding one instruction, up to its
\* snapshot, while the caller's transaction is between its snapshot and its
\* return; one such transaction is submitted.
peer_execute_entry(ix) ==
    /\ pc \in {"loop", "exit"}
    /\ peer.pc = "idle"
    /\ peer' = [pc |-> "loop", snapshot |-> Some(snapshot_accounts(accounts)),
                instruction |-> Some(ix), outcome |-> None]
    /\ UNCHANGED <<accounts, log, PeerFrame>>

\* The loop of the second execute on its instruction: a failure restores its
\* snapshot and returns the error.
peer_execute_loop ==
    /\ pc \in {"loop", "exit", "done"}
    /\ peer.pc = "loop"
    /\ \E o \in process_instruction_internal(accounts, peer.instruction[1]) :
        IF is_err(o.result.program_result)
        THEN /\ accounts' = restore_accounts(o.accounts, peer.snapshot[1])
             /\ log' = Append(log, EvPeerRestore)
             /\ peer' = [pc |-> "done", snapshot |-> None, instruction |-> None,
                         outcome |-> Some("Err")]
        ELSE /\ accounts' = o.accounts
             /\ log' = log
             /\ peer' = [peer EXCEPT !.pc = "exit"]
    /\ UNCHANGED PeerFrame

\* The second execute returns Ok: what its instruction wrote stays in the
\* store.
peer_execute_return ==
    /\ pc \in {"loop", "exit", "done"}
    /\ peer.pc = "exit"
    /\ log' = Append(log, EvPeerCommit(peer.snapshot[1], accounts))
    /\ peer' = [pc |-> "done", snapshot |-> None, instruction |-> None,
                outcome |-> Some("Ok")]
    /\ UNCHANGED <<accounts, PeerFrame>>

\* ------------------------------------------------ TransactionBuilder::execute
execute_entry == Entry("execute", "Ok")

\* Mutant of execute_loop: the failure branch returns without the restore.
execute_loop_no_restore ==
    /\ pc = "loop"
    /\ mode = "execute"
    /\ \E o \in process_instruction_internal(accounts, instructions[index + 1]) :
        /\ total_compute_units' =
               U64Add(total_compute_units, o.result.compute_units_consumed)
        /\ total_execution_time' =
               U64Add(total_execution_time, o.result.execution_time)
        /\ accounts' = o.accounts
        /\ log' = Append(log, EvCall(index, instructions[index + 1], o.result, o.accounts))
        /\ IF is_err(o.result.program_result)
           THEN /\ snapshot' = None
                /\ ret' = Some([tag |-> "Err",
                                kind |-> "TransactionFailed",
                                index |-> index,
                                error |-> o.result.raw_result])
                /\ pc' = "done"
                /\ UNCHANGED <<index, instruction_results>>
           ELSE /\ instruction_results' = Append(instruction_results, o.result)
                /\ index' = index + 1
                /\ pc' = NextPc
                /\ UNCHANGED <<snapshot, ret>>
    /\ UNCHANGED <<mode, instructions, any_failed, pre, keypairs, last_op, ledger, trail, lock, setup, peer>>

\* Mutant of execute_loop: a failure restores the snapshot and records the
\* error, but the loop goes on with the next instruction.
execute_loop_continue ==
    /\ pc = "loop"
    /\ mode = "execute"
    /\ \E o \in process_instruction_internal(accounts, instructions[index + 1]) :
        /\ total_compute_units' =
               U64Add(total_compute_units, o.result.compute_units_consumed)
        /\ total_execution_time' =
               U64Add(total_execution_time, o.result.execution_time)
        /\ IF is_err(o.result.program_result)
           THEN /\ accounts' = restore_accounts(o.accounts, snapshot[1])
                /\ log' = log \o <<EvCall(index, instructions[index + 1], o.result, o.accounts), EvRestore>>
                /\ ret' = Some([tag |-> "Err",
                                kind |-> "TransactionFailed",
                                index |-> index,
                                error |-> o.result.raw_result])
                /\ UNCHANGED instruction_results
           ELSE /\ accounts' = o.accounts
                /\ log' = Append(log, EvCall(index, instructions[index + 1], o.result, o.accounts))
                /\ instruction_results' = Append(instruction_results, o.result)
                /\ UNCHANGED ret
    /\ index' = index + 1
    /\ pc' = NextPc
    /\ UNCHANGED <<mode, instructions, snapshot, any_failed, pre, keypairs, last_op, ledger, trail, lock, setup, peer>>

\* Mutant of execute_loop: the error carries the position and the detail of
\* the first instruction, whichever instruction failed.
execute_loop_first_detail ==
    /\ pc = "loop"
    /\ mode = "execute"
    /\ \E o \in process_instruction_internal(accounts, instructions[index + 1]) :
        /\ total_compute_units' =
               U64Add(total_compute_units, o.result.compute_units_consumed)
        /\ total_execution_time' =
               U64Add(total_execution_time, o.result.execution_time)
        /\ IF is_err(o.result.program_result)
           THEN /\ accounts' = restore_accounts(o.accounts, snapshot[1])
                /\ snapshot' = None
                /\ log' = log \o <<EvCall(index, instructions[index + 1], o.result, o.accounts), EvRestore>>
                /\ ret' = Some([tag |-> "Err",
                                kind |-> "TransactionFailed",
                                index |-> 0,
                                error |-> IF index = 0
                                          THEN o.result.raw_result
                                          ELSE instruction_results[1].raw_result])
                /\ pc' = "done"
                /\ UNCHANGED <<index, instruction_results>>
           ELSE /\ accounts' = o.accounts
                /\ log' = Append(log, EvCall(index, instructions[index + 1], o.result, o.accounts))
                /\ instruction_results' = Append(instruction_results, o.result)
                /\ index' = index + 1
                /\ pc' = NextPc
                /\ UNCHANGED <<snapshot, ret>>
    /\ UNCHANGED <<mode, instructions, any_failed, pre, keypairs, last_op, ledger, trail, lock, setup, peer>>

\* One iteration of the `for` loop of execute.
execute_loop ==
    /\ pc = "loop"
    /\ mode = "execute"
    /\ \E o \in process_instruction_internal(accounts, instructions[index + 1]) :
        IF AddPanics(o) THEN Abort(o)
        ELSE
        /\ total_compute_units' =
               U64Add(total_compute_units, o.result.compute_units_consumed)
        /\ total_execution_time' =
               U64Add(total_execution_time, o.result.execution_time)
        /\ any_failed' = any_failed
        /\ IF is_err(o.result.program_result)
           THEN /\ accounts' = restore_accounts(o.accounts, snapshot[1])
                /\ snapshot' = None
                /\ log' = log \o <<EvCall(index, instructions[index + 1], o.result, o.accounts), EvRestore>>
                /\ ret' = IF o.result.raw_result = "Ok"
                          THEN Some([tag |-> "Panic"])
                          ELSE Some([tag |-> "Err",
                                     kind |-> "TransactionFailed",
                                     index |-> index,
                                     error |-> o.result.raw_result])
                /\ pc' = "done"
                /\ UNCHANGED <<index, instruction_results>>
           ELSE /\ accounts' = o.accounts
                /\ log' = Append(log, EvCall(index, instructions[index + 1], o.result, o.accounts))
                /\ instruction_results' = Append(instruction_results, o.result)
                /\ index' = index + 1
                /\ pc' = NextPc
                /\ UNCHANGED <<snapshot, ret>>
    /\ UNCHANGED <<mode, instructions, pre, keypairs, last_op, ledger, trail, lock, setup, peer>>

\* Mutant of execute_return: the snapshot is restored before the Ok(..).
execute_return_restoring ==
    /\ pc = "exit"
    /\ mode = "execute"
    /\ accounts' = restore_accounts(accounts, snapshot[1])
    /\ log' = Append(log, EvRestore)
    /\ ret' = Some([tag |-> "Ok",
                    value |-> TransactionResult(instruction_results,
                                                total_compute_units,
                                                total_execution_time)])
    /\ snapshot' = None
    /\ pc' = "done"
    /\ UNCHANGED <<mode, instructions, index, instruction_results,
                   total_compute_units, total_execution_time, any_failed, pre,
                   keypairs, last_op, lock, setup, peer>>
    /\ ledger' = SequentialStore(ledger, instructions)
    /\ trail' = IF trail = "start" THEN "committed" ELSE trail

\* The Ok(..) after the loop of execute.
execute_return ==
    /\ pc = "exit"
    /\ mode = "execute"
    /\ ret' = Some([tag |-> "Ok",
                    value |-> TransactionResult(instruction_results,
                                                total_compute_units,
                                                total_execution_time)])
    /\ snapshot' = None
    /\ pc' = "done"
    /\ UNCHANGED <<accounts, mode, instructions, index, instruction_results,
                   total_compute_units, total_execution_time, any_failed, pre, log,
                   keypairs, last_op, lock, setup, peer>>
    /\ ledger' = SequentialStore(ledger, instructions)
    /\ trail' = IF trail = "start" THEN "committed" ELSE trail

\* --------------------------------- TransactionBuilder::execute_allow_failures
execute_allow_failures_entry == Entry("execute_allow_failures", "Value")

\* Mutant of execute_allow_failures_loop: the flag holds the outcome of the
\* latest instruction only.
execute_allow_failures_loop_last_flag ==
    /\ pc = "loop"
    /\ mode = "execute_allow_failures"
    /\ \E o \in process_instruction_internal(accounts, instructions[index + 1]) :
        /\ total_compute_units' =
               U64Add(total_compute_units, o.result.compute_units_consumed)
        /\ total_execution_time' =
               U64Add(total_execution_time, o.result.execution_time)
        /\ any_failed' = is_err(o.result.program_result)
        /\ accounts' = o.accounts
        /\ instruction_results' = Append(instruction_results, o.result)
        /\ log' = Append(log, EvCall(index, instructions[index + 1], o.result, o.accounts))
    /\ index' = index + 1
    /\ pc' = NextPc
    /\ UNCHANGED <<mode, instructions, snapshot, ret, pre, keypairs, last_op, ledger, trail, lock, setup, peer>>

\* Mutant of execute_allow_failures_loop: a failure breaks out of the loop.
execute_allow_failures_loop_break ==
    /\ pc = "loop"
    /\ mode = "execute_allow_failures"
    /\ \E o \in process_instruction_internal(accounts, instructions[index + 1]) :
        /\ total_compute_units' =
               U64Add(total_compute_units, o.result.compute_units_consumed)
        /\ total_execution_time' =
               U64Add(total_execution_time, o.result.execution_time)
        /\ any_failed' = (any_failed \/ is_err(o.result.program_result))
        /\ accounts' = o.accounts
        /\ instruction_results' = Append(instruction_results, o.result)
        /\ log' = Append(log, EvCall(index, instructions[index + 1], o.result, o.accounts))
        /\ pc' = IF is_err(o.result.program_result) THEN "exit" ELSE NextPc
    /\ index' = index + 1
    /\ UNCHANGED <<mode, instructions, snapshot, ret, pre, keypairs, last_op, ledger, trail, lock, setup, peer>>

\* Mutant of execute_allow_failures_loop: a failed instruction is handed to
\* the engine again instead of moving on to the next one.
execute_allow_failures_loop_retry ==
    /\ pc = "loop"
    /\ mode = "execute_allow_failures"
    /\ \E o \in process_instruction_internal(accounts, instructions[index + 1]) :
        /\ total_compute_units' =
               U64Add(total_compute_units, o.result.compute_units_consumed)
        /\ total_execution_time' =
               U64Add(total_execution_time, o.result.execution_time)
        /\ any_failed' = (any_failed \/ is_err(o.result.program_result))
        /\ accounts' = o.accounts
        /\ instruction_results' = Append(instruction_results, o.result)
        /\ log' = Append(log, EvCall(index, instructions[index + 1], o.result, o.accounts))
        /\ index' = IF is_err(o.result.program_result) THEN index ELSE index + 1
        /\ pc' = IF is_err(o.result.program_result) THEN "loop" ELSE NextPc
    /\ UNCHANGED <<mode, instructions, snapshot, ret, pre, keypairs, last_op, ledger, trail, lock, setup, peer>>

\* Mutant of execute_allow_failures_loop: the snapshot is restored right after
\* each failed instruction, so the next one starts from the clean store.
execute_allow_failures_loop_restore_each ==
    /\ pc = "loop"
    /\ mode = "execute_allow_failures"
    /\ \E o \in process_instruction_internal(accounts, instructions[index + 1]) :
        /\ total_compute_units' =
               U64Add(total_compute_units, o.result.compute_units_consumed)
        /\ total_execution_time' =
               U64Add(total_execution_time, o.result.execution_time)
        /\ any_failed' = (any_failed \/ is_err(o.result.program_result))
        /\ accounts' = IF is_err(o.result.program_result)
                       THEN restore_accounts(o.accounts, snapshot[1])
                       ELSE o.accounts
        /\ instruction_results' = Append(instruction_results, o.result)
        /\ log' = Append(log, EvCall(index, instructions[index + 1], o.result, o.accounts))
    /\ index' = index + 1
    /\ pc' = NextPc
    /\ UNCHANGED <<mode, instructions, snapshot, ret, pre, keypairs, last_op, ledger, trail, lock, setup, peer>>

\* One iteration of the `for` loop of execute_allow_failures.
execute_allow_failures_loop ==
    /\ pc = "loop"
    /\ mode = "execute_allow_failures"
    /\ \E o \in process_instruction_internal(accounts, instructions[index + 1]) :
        IF AddPanics(o) THEN Abort(o)
        ELSE
        /\ total_compute_units' =
               U64Add(total_compute_units, o.result.compute_units_consumed)
        /\ total_execution_time' =
               U64Add(total_execution_time, o.result.execution_time)
        /\ any_failed' = (any_failed \/ is_err(o.result.program_result))
        /\ accounts' = o.accounts
        /\ instruction_results' = Append(instruction_results, o.result)
        /\ log' = Append(log, EvCall(index, instructions[index + 1], o.result, o.accounts))
        /\ index' = index + 1
        /\ pc' = NextPc
        /\ UNCHANGED <<snapshot, ret>>
    /\ UNCHANGED <<mode, instructions, pre, keypairs, last_op, ledger, trail, lock, setup, peer>>

\* Mutant of execute_allow_failures_return: the snapshot is never restored.
execute_allow_failures_return_no_restore ==
    /\ pc = "exit"
    /\ mode = "execute_allow_failures"
    /\ UNCHANGED <<accounts, log>>
    /\ snapshot' = None
    /\ ret' = Some([tag |-> "Value",
                    value |-> TransactionResult(instruction_results,
                                                total_compute_units,
                                                total_execution_time)])
    /\ pc' = "done"
    /\ UNCHANGED <<mode, instructions, index, instruction_results,
                   total_compute_units, total_execution_time, any_failed, pre,
                   keypairs, last_op, lock, setup, peer>>
    /\ ledger' = IF \E i \in 1..Len(instruction_results) :
                      is_err(instruction_results[i].program_result)
                  THEN ledger
                  ELSE SequentialStore(ledger, instructions)
    /\ trail' = IF trail = "start" /\ ~ \E i \in 1..Len(instruction_results) :
                                            is_err(instruction_results[i].program_result)
                THEN "committed"
                ELSE trail

\* The restore decision and the return of execute_allow_failures.
execute_allow_failures_return ==
    /\ pc = "exit"
    /\ mode = "execute_allow_failures"
    /\ IF any_failed
       THEN /\ accounts' = restore_accounts(accounts, snapshot[1])
            /\ log' = Append(log, EvRestore)
       ELSE UNCHANGED <<accounts, log>>
    /\ snapshot' = None
    /\ ret' = Some([tag |-> "Value",
                    value |-> TransactionResult(instruction_results,
                                                total_compute_units,
                                                total_execution_time)])
    /\ pc' = "done"
    /\ UNCHANGED <<mode, instructions, index, instruction_results,
                   total_compute_units, total_execution_time, any_failed, pre,
                   keypairs, last_op, lock, setup, peer>>
    /\ ledger' = IF \E i \in 1..Len(instruction_results) :
                      is_err(instruction_results[i].program_result)
                  THEN ledger
                  ELSE SequentialStore(ledger, instructions)
    /\ trail' = IF trail = "start" /\ ~ \E i \in 1..Len(instruction_results) :
                                            is_err(instruction_results[i].program_result)
                THEN "committed"
                ELSE trail

\* ------------------------------------------------ TransactionBuilder::dry_run
dry_run_entry == Entry("dry_run", "Value")

\* Mutant of dry_run_loop: the metrics of the failing instruction are not
\* added to the totals.
dry_run_loop_uncounted_failure ==
    /\ pc = "loop"
    /\ mode = "dry_run"
    /\ \E o \in process_instruction_internal(accounts, instructions[index + 1]) :
        /\ IF is_err(o.result.program_result)
           THEN UNCHANGED <<total_compute_units, total_execution_time>>
           ELSE /\ total_compute_units' =
                       U64Add(total_compute_units, o.result.compute_units_consumed)
                /\ total_execution_time' =
                       U64Add(total_execution_time, o.result.execution_time)
        /\ accounts' = o.accounts
        /\ instruction_results' = Append(instruction_results, o.result)
        /\ log' = Append(log, EvCall(index, instructions[index + 1], o.result, o.accounts))
        /\ pc' = IF is_err(o.result.program_result) THEN "exit" ELSE NextPc
    /\ index' = index + 1
    /\ UNCHANGED <<mode, instructions, snapshot, any_failed, ret, pre, keypairs, last_op, ledger, trail, lock, setup, peer>>

\* Mutant of dry_run_loop: a failure does not break out of the loop.
dry_run_loop_no_break ==
    /\ pc = "loop"
    /\ mode = "dry_run"
    /\ \E o \in process_instruction_internal(accounts, instructions[index + 1]) :
        /\ total_compute_units' =
               U64Add(total_compute_units, o.result.compute_units_consumed)
        /\ total_execution_time' =
               U64Add(total_execution_time, o.result.execution_time)
        /\ accounts' = o.accounts
        /\ instruction_results' = Append(instruction_results, o.result)
        /\ log' = Append(log, EvCall(index, instructions[index + 1], o.result, o.accounts))
    /\ pc' = NextPc
    /\ index' = index + 1
    /\ UNCHANGED <<mode, instructions, snapshot, any_failed, ret, pre, keypairs, last_op, ledger, trail, lock, setup, peer>>

\* Mutant of dry_run_loop: a fresh snapshot is taken before every call.
dry_run_loop_snapshot_each ==
    /\ pc = "loop"
    /\ mode = "dry_run"
    /\ \E o \in process_instruction_internal(accounts, instructions[index + 1]) :
        /\ total_compute_units' =
               U64Add(total_compute_units, o.result.compute_units_consumed)
        /\ total_execution_time' =
               U64Add(total_execution_time, o.result.execution_time)
        /\ accounts' = o.accounts
        /\ instruction_results' = Append(instruction_results, o.result)
        /\ log' = log \o <<EvSnapshot, EvCall(index, instructions[index + 1], o.result, o.accounts)>>
        /\ pc' = IF is_err(o.result.program_result) THEN "exit" ELSE NextPc
    /\ snapshot' = Some(snapshot_accounts(accounts))
    /\ index' = index + 1
    /\ UNCHANGED <<mode, instructions, any_failed, ret, pre, keypairs, last_op, ledger, trail, lock, setup, peer>>

\* One iteration of the `for` loop of dry_run; a failure breaks out of it.
dry_run_loop ==
    /\ pc = "loop"
    /\ mode = "dry_run"
    /\ \E o \in process_instruction_internal(accounts, instructions[index + 1]) :
        IF AddPanics(o) THEN Abort(o)
        ELSE
        /\ total_compute_units' =
               U64Add(total_compute_units, o.result.compute_units_consumed)
        /\ total_execution_time' =
               U64Add(total_execution_time, o.result.execution_time)
        /\ accounts' = o.accounts
        /\ instruction_results' = Append(instruction_results, o.result)
        /\ log' = Append(log, EvCall(index, instructions[index + 1], o.result, o.accounts))
        /\ pc' = IF is_err(o.result.program_result) THEN "exit" ELSE NextPc
        /\ index' = index + 1
        /\ UNCHANGED <<snapshot, any_failed, ret>>
    /\ UNCHANGED <<mode, instructions, pre, keypairs, last_op, ledger, trail, lock, setup, peer>>

\* Mutant of dry_run_return: the snapshot is restored only after a failure.
dry_run_return_restore_on_failure ==
    /\ pc = "exit"
    /\ mode = "dry_run"
    /\ IF ~is_success(TransactionResult(instruction_results,
                                        total_compute_units,
                                        total_execution_time))
       THEN /\ accounts' = restore_accounts(accounts, snapshot[1])
            /\ log' = Append(log, EvRestore)
       ELSE UNCHANGED <<accounts, log>>
    /\ snapshot' = None
    /\ ret' = Some([tag |-> "Value",
                    value |-> TransactionResult(instruction_results,
                                                total_compute_units,
                                                total_execution_time)])
    /\ pc' = "done"
    /\ UNCHANGED <<mode, instructions, index, instruction_results,
                   total_compute_units, total_execution_time, any_failed, pre,
                   keypairs, last_op, ledger, trail, lock, setup, peer>>

\* The unconditional restore and the return of dry_run.
dry_run_return ==
    /\ pc = "exit"
    /\ mode = "dry_run"
    /\ accounts' = restore_accounts(accounts, snapshot[1])
    /\ log' = Append(log, EvRestore)
    /\ snapshot' = None
    /\ ret' = Some([tag |-> "Value",
                    value |-> TransactionResult(instruction_results,
                                                total_compute_units,
                                                total_execution_time)])
    /\ pc' = "done"
    /\ UNCHANGED <<mode, instructions, index, instruction_results,
                   total_compute_units, total_execution_time, any_failed, pre,
                   keypairs, last_op, ledger, trail, lock, setup, peer>>

\* ------------------------------------------------------------ specification
Next ==
    \/ \E a \in Addresses, acc \in Account : ctx_add_account(a, acc)
    \/ \E a \in Addresses, l \in 0..MaxLamports : fund_account(a, l)
    \/ transaction
    \/ \E ix \in Instructions : add_instruction(ix)
    \/ execute_entry
    \/ execute_loop
    \/ execute_return
    \/ execute_allow_failures_entry
    \/ execute_allow_failures_loop
    \/ execute_allow_failures_return
    \/ dry_run_entry
    \/ dry_run_loop
    \/ dry_run_return

Spec == Init /\ [][Next]_vars

\* The steps a transaction takes by itself once execute,
\* execute_allow_failures or dry_run has been called: the calls are
\* synchronous, so the loop and the return go on without the caller.
RunTransaction ==
    \/ execute_loop
    \/ execute_return
    \/ execute_allow_failures_loop
    \/ execute_allow_failures_return
    \/ dry_run_loop
    \/ dry_run_return

\* The caller funds accounts and submits transactions in the three modes.
NextLive ==
    \/ \E a \in Addresses, l \in 0..MaxLamports : fund_account(a, l)
    \/ transaction
    \/ \E ix \in Instructions : add_instruction(ix)
    \/ execute_entry
    \/ execute_allow_failures_entry
    \/ dry_run_entry
    \/ RunTransaction

\* That program with every adapter call returning and the running call
\* making progress.
SpecLive == Init /\ [][NextLive]_vars /\ WF_vars(RunTransaction)

\* The same program with the caller also using the lookups and the keypair
\* registry between and around its transactions; here the caller's
\* transactions hold one instruction each.
NextStore ==
    \/ \E a \in Addresses, acc \in Account : ctx_add_account(a, acc)
    \/ \E a \in Addresses, l \in 0..MaxLamports : fund_account(a, l)
    \/ \E a \in Addresses : ctx_get_account(a)
    \/ \E a \in Addresses : ctx_get_balance(a)
    \/ \E a \in Addresses : get_token_balance(a)
    \/ \E n \in Names, k \in Keypairs : store_keypair(n, k)
    \/ \E n \in Names, m \in Messages : sign_with(n, m)
    \/ \E n \in Names : get_keypair_pubkey(n)
    \/ transaction
    \/ \E ix \in Instructions : instructions = <<>> /\ add_instruction(ix)
    \/ execute_entry
    \/ execute_loop
    \/ execute_return
    \/ execute_allow_failures_entry
    \/ execute_allow_failures_loop
    \/ execute_allow_failures_return
    \/ dry_run_entry
    \/ dry_run_loop
    \/ dry_run_return

SpecStore == Init /\ [][NextStore]_vars

\* The caller's transactions with the steps of a second transaction on the
\* same store falling between theirs; here the caller's transactions hold one
\* instruction each, and the caller builds its next transaction once the
\* second one has returned.
NextInterleaved ==
    \/ \E a \in Addresses, l \in 0..MaxLamports : fund_account(a, l)
    \/ (peer.pc \notin {"loop", "exit"} /\ transaction)
    \/ \E ix \in Instructions : instructions = <<>> /\ add_instruction(ix)
    \/ execute_entry
    \/ execute_allow_failures_entry
    \/ dry_run_entry
    \/ RunTransaction
    \/ \E ix \in Instructions : peer_execute_entry(ix)
    \/ peer_execute_loop
    \/ peer_execute_return

SpecInterleaved == Init /\ [][NextInterleaved]_vars

\* The caller's transactions on an engine with wide metrics, in both builds.
SpecWide == InitWide /\ [][NextLive]_vars

\* The program with the registry's lock shared with another holder, and with
\* single adapter calls next to the transactions; here the caller's
\* transactions hold one instruction each.
NextLock ==
    \/ \E a \in Addresses, l \in 0..MaxLamports : fund_account(a, l)
    \/ \E n \in Names, k \in Keypairs : store_keypair(n, k)
    \/ \E n \in Names, m \in Messages : sign_with(n, m)
    \/ \E n \in Names : get_keypair_pubkey(n)
    \/ unblock
    \/ \E g \in {"other_read", "other_write"} : other_acquire(g)
    \/ other_release
    \/ other_panic
    \/ \E ix \in Instructions : process_instruction(ix)
    \/ transaction
    \/ \E ix \in Instructions : instructions = <<>> /\ add_instruction(ix)
    \/ execute_entry
    \/ execute_loop
    \/ execute_return
    \/ execute_allow_failures_entry
    \/ execute_allow_failures_loop
    \/ execute_allow_failures_return
    \/ dry_run_entry
    \/ dry_run_loop
    \/ dry_run_return

SpecLock == Init /\ [][NextLock]_vars

\* The program of Spec with the trail of commits and caller writes recorded.
SpecHistory == InitHistory /\ [][Next]_vars

TypeOK ==
    /\ pc \in {"idle", "building", "loop", "exit", "done", "blocked"}
    /\ mode \in {"none", "execute", "execute_allow_failures", "dry_run"}
    /\ index \in 0..MaxInstr
    /\ Len(instructions) <= MaxInstr
    /\ \A a \in DOMAIN accounts : accounts[a] \in Account

\* Same set of addresses, same record per address.
SameStore(s, t) ==
    /\ DOMAIN s = DOMAIN t
    /\ \A a \in DOMAIN s : s[a] = t[a]

\* The adapter calls of the current transaction, in the order they happened.
IsCall(e) == e.op = "call"
Calls == SelectSeq(log, IsCall)
Restores == Cardinality({ i \in 1..Len(log) : log[i].op = "restore" })
Snapshots == Cardinality({ i \in 1..Len(log) : log[i].op = "snapshot" })

Returned(m) == pc = "done" /\ mode = m

\* ------------------------------------------------------------------- claims
\* C1: strict mode rollback. When the first failing instruction of a non-empty
\* list is at position k, execute() leaves the store as it was just before the
\* call (same addresses, same records), whatever the earlier instructions and
\* the failing one wrote, and returns TransactionFailed with index = k.
C1_StrictRollback ==
    (Returned("execute") /\ FirstFailure(pre, instructions, 0) # None) =>
        /\ SameStore(accounts, pre)
        /\ ret # None
        /\ ret[1].tag = "Err"
        /\ ret[1].kind = "TransactionFailed"
        /\ ret[1].index = FirstFailure(pre, instructions, 0)[1]

\* Witness of C1: the second instruction failed after the first one had
\* changed the store, the failing call itself left a partial mutation, and
\* the store is back at its content before the call.
C1_Witness ==
    /\ Returned("execute")
    /\ ret[1].tag = "Err"
    /\ ret[1].index = 1
    /\ Len(log) = 4
    /\ log[2].after # pre
    /\ log[3].after # log[2].after
    /\ accounts = pre

\* C2: strict mode commit. When every instruction of a non-empty list
\* succeeds, the store after execute() is the store of the sequential
\* reference run, no restore happened, and the result has one entry per
\* instruction, is_success() true and failed_at() none.
C2_StrictCommit ==
    (/\ Returned("execute")
     /\ Len(instructions) > 0
     /\ FirstFailure(pre, instructions, 0) = None) =>
        /\ SameStore(accounts, SequentialStore(pre, instructions))
        /\ Restores = 0
        /\ ret # None
        /\ ret[1].tag = "Ok"
        /\ Len(ret[1].value.instruction_results) = Len(instructions)
        /\ is_success(ret[1].value)
        /\ failed_at(ret[1].value) = None

\* Witness of C2: a two-instruction list committed and changed the store.
C2_Witness ==
    /\ Returned("execute")
    /\ Len(instructions) = 2
    /\ ret[1].tag = "Ok"
    /\ accounts # pre
    /\ accounts = SequentialStore(pre, instructions)

\* C3: dry run never mutates. After dry_run() returns the store is what it was
\* just before the call, whether all instructions succeeded, one failed, or an
\* instruction created an account.
C3_DryRunNoMutation ==
    Returned("dry_run") => SameStore(accounts, pre)

\* Witness of C3: a dry run whose instructions all succeeded and created an
\* account the store did not hold, and the store is unchanged afterwards.
C3_Witness ==
    /\ Returned("dry_run")
    /\ Len(instructions) = 2
    /\ is_success(ret[1].value)
    /\ DOMAIN log[2].after # DOMAIN pre
    /\ accounts = pre

\* C4: tolerant mode is all-or-nothing. After execute_allow_failures() the
\* store holds the mutations of all instructions if and only if none failed;
\* as soon as one failed the store is what it was before the call, whatever
\* the instructions that succeeded before or after it wrote.
C4_TolerantAllOrNothing ==
    Returned("execute_allow_failures") =>
        IF \E i \in 1..Len(Calls) : is_err(Calls[i].result.program_result)
        THEN SameStore(accounts, pre)
        ELSE SameStore(accounts, SequentialStore(pre, instructions))

\* Witness of C4: the first instruction failed, the second then succeeded and
\* changed the store, and the store is back at its content before the call.
C4_Witness ==
    /\ Returned("execute_allow_failures")
    /\ Len(Calls) = 2
    /\ is_err(Calls[1].result.program_result)
    /\ is_ok(Calls[2].result.program_result)
    /\ Calls[2].after # Calls[1].after
    /\ accounts = pre

\* C5: tolerant mode does not short-circuit. execute_allow_failures() hands
\* each of the n instructions to the adapter exactly once, in list order,
\* whatever failed before, and the result has exactly n entries, entry i being
\* the outcome of instruction i.
C5_TolerantNoShortCircuit ==
    Returned("execute_allow_failures") =>
        /\ Len(Calls) = Len(instructions)
        /\ \A i \in 1..Len(Calls) :
               /\ Calls[i].index = i - 1
               /\ Calls[i].instruction = instructions[i]
        /\ Len(ret[1].value.instruction_results) = Len(instructions)
        /\ \A i \in 1..Len(Calls) :
               ret[1].value.instruction_results[i] = Calls[i].result

\* Witness of C5: the first of two instructions failed and the second was
\* still handed to the adapter.
C5_Witness ==
    /\ Returned("execute_allow_failures")
    /\ Len(instructions) = 2
    /\ Len(Calls) = 2
    /\ is_err(Calls[1].result.program_result)
    /\ Len(ret[1].value.instruction_results) = 2

\* C6: the empty instruction list. In all three modes it returns a result with
\* no entries and zero totals, without a snapshot, an adapter call or a
\* restore; the store is unchanged and execute() returns Ok.
C6_EmptyList ==
    (pc = "done" /\ Len(instructions) = 0) =>
        /\ ret = Some([tag |-> IF mode = "execute" THEN "Ok" ELSE "Value",
                       value |-> [instruction_results |-> <<>>,
                                  total_compute_units |-> U64Zero,
                                  total_execution_time |-> U64Zero]])
        /\ log = <<>>
        /\ snapshot = None
        /\ SameStore(accounts, pre)

\* Witness of C6: execute() returned on an empty list over a non-empty store.
C6_Witness ==
    /\ Returned("execute")
    /\ Len(instructions) = 0
    /\ DOMAIN accounts = Addresses
    /\ ret[1].tag = "Ok"

\* C7: restore returns to capture time. Once the snapshot taken on content S
\* is restored, every address of S has its capture-time record and every
\* address inserted since is absent again; and the writes made while the
\* snapshot is held never change the snapshot.
C7_RestoreToCapture ==
    /\ snapshot # None => SameStore(snapshot[1], pre)
    /\ (Len(log) > 0 /\ log[Len(log)].op = "restore") =>
           /\ \A a \in DOMAIN pre : get_account(accounts, a) = Some(pre[a])
           /\ \A a \in Addresses \ DOMAIN pre : get_account(accounts, a) = None

\* Witness of C7: between the snapshot and the restore the engine inserted an
\* address the snapshot lacks and overwrote a record the snapshot holds.
C7_Witness ==
    /\ Len(log) > 0
    /\ log[Len(log)].op = "restore"
    /\ \E i \in 1..Len(Calls) :
           /\ \E a \in DOMAIN Calls[i].after : a \notin DOMAIN pre
           /\ \E a \in DOMAIN pre : Calls[i].after[a] # pre[a]
    /\ accounts = pre

\* C8: snapshot/restore round trip. For every store content, restoring a
\* snapshot taken with nothing in between leaves get and balance of every
\* address unchanged.
C8_RoundTrip ==
    LET after == restore_accounts(accounts, snapshot_accounts(accounts))
    IN  \A a \in Addresses :
            /\ get_account(after, a) = get_account(accounts, a)
            /\ get_balance(after, a) = get_balance(accounts, a)

\* Witness of C8: the round trip on a store that holds an account with a zero
\* balance and lacks the other address: both are observed as before.
C8_Witness ==
    LET after == restore_accounts(accounts, snapshot_accounts(accounts))
    IN  /\ DOMAIN accounts = {"alice"}
        /\ accounts["alice"].lamports = 0
        /\ get_balance(after, "alice") = Some(0)
        /\ get_account(after, "bob") = None

\* C9: result aggregation. is_success() is true iff every entry is a success
\* (true for no entries), failed_at() is the smallest index whose entry is not
\* a success and is none iff is_success(), and last_result() is the final
\* entry, none iff there are no entries.
C9_Aggregation ==
    LET rs == instruction_results
        tr == TransactionResult(rs, total_compute_units, total_execution_time)
        bad == { i \in 1..Len(rs) : rs[i].program_result # "Success" }
    IN  /\ is_success(tr) = (bad = {})
        /\ (failed_at(tr) = None) = is_success(tr)
        /\ bad # {} =>
               /\ failed_at(tr) # None
               /\ (failed_at(tr)[1] + 1) \in bad
               /\ \A j \in bad : failed_at(tr)[1] + 1 <= j
        /\ (last_result(tr) = None) = (Len(rs) = 0)
        /\ Len(rs) > 0 => last_result(tr) = Some(rs[Len(rs)])

\* Witness of C9: a returned result whose two entries both failed.
C9_Witness ==
    /\ pc = "done"
    /\ Len(instruction_results) = 2
    /\ is_err(instruction_results[1].program_result)
    /\ is_err(instruction_results[2].program_result)
    /\ failed_at(ret[1].value) = Some(0)
    /\ ~is_success(ret[1].value)

\* The arithmetic sum of a metric over the entries, limb by limb (no wrap).
RECURSIVE SumHi(_, _)
SumHi(rs, field) ==
    IF Len(rs) = 0 THEN 0 ELSE Head(rs)[field].hi + SumHi(Tail(rs), field)
RECURSIVE SumLo(_, _)
SumLo(rs, field) ==
    IF Len(rs) = 0 THEN 0 ELSE Head(rs)[field].lo + SumLo(Tail(rs), field)

\* C10: metric totals match the entries. In every TransactionResult returned
\* by execute, execute_allow_failures and dry_run, total_compute_units is the
\* sum of compute_units_consumed over exactly the entries of
\* instruction_results and total_execution_time the sum of execution_time
\* over the same entries (in a dry run, the failing entry included).
C10_MetricTotals ==
    (ret # None /\ ret[1].tag \in {"Ok", "Value"}) =>
        LET tr == ret[1].value
            rs == tr.instruction_results
        IN  /\ tr.total_compute_units.hi = SumHi(rs, "compute_units_consumed")
            /\ tr.total_compute_units.lo = SumLo(rs, "compute_units_consumed")
            /\ tr.total_execution_time.hi = SumHi(rs, "execution_time")
            /\ tr.total_execution_time.lo = SumLo(rs, "execution_time")

\* Witness of C10: a dry run that stopped at a failing second entry which
\* reported compute units, after a first entry that reported execution time.
C10_Witness ==
    /\ Returned("dry_run")
    /\ Len(ret[1].value.instruction_results) = 2
    /\ is_err(ret[1].value.instruction_results[2].program_result)
    /\ ret[1].value.instruction_results[2].compute_units_consumed.lo > 0
    /\ ret[1].value.instruction_results[1].execution_time.lo > 0
    /\ ret[1].value.total_compute_units.lo > 0

\* C11: strict mode short-circuit. When instruction k is the first failing one,
\* the restore is the event right after adapter call k, no instruction after k
\* is handed to the adapter, and the adapter is called exactly k + 1 times.
\* In every state of a strict run a failed call is the last call, it is
\* followed by the restore and by nothing else.
C11_StrictShortCircuit ==
    mode = "execute" =>
        /\ \A i \in 1..Len(log) :
               (IsCall(log[i]) /\ is_err(log[i].result.program_result)) =>
                   /\ Len(log) = i + 1
                   /\ log[i + 1] = EvRestore
                   /\ Len(Calls) = log[i].index + 1
        /\ \A j \in 1..Len(Calls) : Calls[j].index = j - 1
        /\ (pc = "done" /\ FirstFailure(pre, instructions, 0) # None) =>
               /\ Len(Calls) = FirstFailure(pre, instructions, 0)[1] + 1
               /\ is_err(Calls[Len(Calls)].result.program_result)
               /\ Calls[Len(Calls)].index = FirstFailure(pre, instructions, 0)[1]
               /\ log[Len(log)] = EvRestore
               /\ IsCall(log[Len(log) - 1])

\* Witness of C11: the first of two instructions failed; the adapter was called
\* once and the second instruction was never handed to it.
C11_Witness ==
    /\ Returned("execute")
    /\ Len(instructions) = 2
    /\ FirstFailure(pre, instructions, 0) = Some(0)
    /\ Len(Calls) = 1
    /\ log = <<EvSnapshot, Calls[1], EvRestore>>
    /\ ProgramResultOf(pre, instructions[2]) = "Success"

\* C12: dry-run short-circuit. When instruction k is the first failing one,
\* dry_run returns exactly k + 1 entries: entries 0 .. k-1 are successes, entry
\* k is the failure, failed_at() is k and entry k is the last result; when no
\* instruction fails there are as many entries as instructions. The adapter is
\* called once per entry, so no instruction after k is handed to it.
C12_DryRunShortCircuit ==
    Returned("dry_run") =>
        LET tr == ret[1].value
            rs == tr.instruction_results
            ff == FirstFailure(pre, instructions, 0)
        IN  /\ ret[1].tag = "Value"
            /\ Len(Calls) = Len(rs)
            /\ \A j \in 1..Len(Calls) :
                   /\ Calls[j].index = j - 1
                   /\ Calls[j].instruction = instructions[j]
                   /\ Calls[j].result = rs[j]
            /\ IF ff = None
               THEN /\ Len(rs) = Len(instructions)
                    /\ \A j \in 1..Len(rs) : is_ok(rs[j].program_result)
                    /\ failed_at(tr) = None
               ELSE /\ Len(rs) = ff[1] + 1
                    /\ \A j \in 1..ff[1] : is_ok(rs[j].program_result)
                    /\ is_err(rs[ff[1] + 1].program_result)
                    /\ failed_at(tr) = ff
                    /\ last_result(tr) = Some(rs[ff[1] + 1])

\* Witness of C12: a dry run of two instructions stopped at the first one,
\* which failed, although the second one would have succeeded.
C12_Witness ==
    /\ Returned("dry_run")
    /\ Len(instructions) = 2
    /\ Len(ret[1].value.instruction_results) = 1
    /\ failed_at(ret[1].value) = Some(0)
    /\ ProgramResultOf(pre, instructions[2]) = "Success"

\* C13: strict mode classifies every adapter failure. Whenever an adapter call
\* of execute fails, execute returns TransactionFailed whose index is the
\* position of that call and whose error is the raw error of exactly that
\* call's result; it never takes the branch marked unreachable and never
\* returns anything else after a failure.
C13_StrictClassifies ==
    /\ (ret # None => ret[1].tag # "Panic")
    /\ (Returned("execute") /\
        \E j \in 1..Len(Calls) : is_err(Calls[j].result.program_result)) =>
           LET failing == Calls[Len(Calls)]
           IN  /\ is_err(failing.result.program_result)
               /\ ret[1].tag = "Err"
               /\ ret[1].kind = "TransactionFailed"
               /\ ret[1].index = failing.index
               /\ instructions[ret[1].index + 1] = failing.instruction
               /\ ret[1].error = failing.result.raw_result
               /\ ret[1].error # "Ok"
    /\ (Returned("execute") /\ ret[1].tag = "Err") =>
           \E j \in 1..Len(Calls) : is_err(Calls[j].result.program_result)

\* Witness of C13: the second instruction failed for lack of funds after the
\* first had succeeded, and the error names position 1 and that reason.
C13_Witness ==
    /\ Returned("execute")
    /\ Len(Calls) = 2
    /\ ret[1].tag = "Err"
    /\ ret[1].index = 1
    /\ ret[1].error = "InsufficientFunds"
    /\ Calls[2].result.raw_result = "InsufficientFunds"
    /\ Calls[1].result.raw_result = "Ok"

\* The failing adapter calls of the current transaction whose result is of the
\* given kind ("Failure": program-reported, "UnknownError": unclassified).
FailedCalls(kind) ==
    { j \in 1..Len(Calls) : Calls[j].result.program_result = kind }

\* The rollback and short-circuit decisions of the three modes once a call of
\* the given kind has failed: strict and dry-run stop at that call, tolerant
\* runs every instruction, and all three restore the snapshot exactly once.
FailureDecisions(kind) ==
    (pc = "done" /\ FailedCalls(kind) # {}) =>
        /\ SameStore(accounts, pre)
        /\ Restores = 1
        /\ log[Len(log)] = EvRestore
        /\ mode = "execute" =>
               /\ FailedCalls(kind) = {Len(Calls)}
               /\ Len(Calls) = FirstFailure(pre, instructions, 0)[1] + 1
        /\ mode = "dry_run" =>
               /\ FailedCalls(kind) = {Len(Calls)}
               /\ Len(Calls) = FirstFailure(pre, instructions, 0)[1] + 1
        /\ mode = "execute_allow_failures" =>
               Len(Calls) = Len(instructions)

\* C14 as stated: same decisions for both kinds of failure, and in all three
\* modes the outcome has a kind of its own for the unclassified engine error:
\* the result entry's UnknownError in tolerant and dry-run mode, and in strict
\* mode an error kind other than the one reported for a program failure.
C14_Original ==
    /\ FailureDecisions("Failure")
    /\ FailureDecisions("UnknownError")
    /\ (pc = "done" /\ mode \in {"execute_allow_failures", "dry_run"}) =>
           \A j \in 1..Len(Calls) :
               ret[1].value.instruction_results[j].program_result
                   = Calls[j].result.program_result
    /\ (Returned("execute") /\ FailedCalls("Failure") # {}) =>
           ret[1].kind = "TransactionFailed"
    /\ (Returned("execute") /\ FailedCalls("UnknownError") # {}) =>
           ret[1].kind = "InstructionFailed"

\* C14: unclassified engine errors. An unclassified engine error triggers the
\* same rollback and short-circuit decisions as a program-reported failure in
\* all three modes. Tolerant and dry-run mode report it as the entry's own
\* result kind (UnknownError, not Failure). Strict mode reports both kinds as
\* the same TransactionFailed error; the two differ only in the raw engine
\* error it carries, which is the failing call's.
C14_UnclassifiedErrors ==
    /\ FailureDecisions("Failure")
    /\ FailureDecisions("UnknownError")
    /\ (pc = "done" /\ mode \in {"execute_allow_failures", "dry_run"}) =>
           \A j \in 1..Len(Calls) :
               ret[1].value.instruction_results[j].program_result
                   = Calls[j].result.program_result
    /\ (Returned("execute") /\
        (FailedCalls("Failure") # {} \/ FailedCalls("UnknownError") # {})) =>
           /\ ret[1].tag = "Err"
           /\ ret[1].kind = "TransactionFailed"
           /\ ret[1].error = Calls[Len(Calls)].result.raw_result
           /\ ret[1].error # "Ok"

\* Witness of C14: strict mode ran a successful transfer and then hit an
\* unclassified engine error; the store is rolled back and the error returned
\* is TransactionFailed.
C14_Witness ==
    /\ Returned("execute")
    /\ Len(Calls) = 2
    /\ Calls[2].result.program_result = "UnknownError"
    /\ Calls[1].after # pre
    /\ accounts = pre
    /\ ret[1].kind = "TransactionFailed"

\* C15: tolerant and dry-run modes never reject. For every instruction list,
\* execute_allow_failures and dry_run return a TransactionResult value, never
\* an error, even when instructions fail; is_success() of that value is false
\* exactly when at least one instruction handed to the adapter failed.
C15_NeverReject ==
    (pc = "done" /\ mode \in {"execute_allow_failures", "dry_run"}) =>
        /\ ret # None
        /\ ret[1].tag = "Value"
        /\ Len(ret[1].value.instruction_results) = Len(Calls)
        /\ ~is_success(ret[1].value) <=>
               \E j \in 1..Len(Calls) : is_err(Calls[j].result.program_result)

\* Witness of C15: tolerant mode returned a value for a list whose first
\* instruction failed and whose second one succeeded; is_success() is false.
C15_Witness ==
    /\ Returned("execute_allow_failures")
    /\ ret[1].tag = "Value"
    /\ Len(Calls) = 2
    /\ is_err(Calls[1].result.program_result)
    /\ is_ok(Calls[2].result.program_result)
    /\ ~is_success(ret[1].value)

\* C16: store point writes and reads. A step add_account(a, x), and so
\* fund_account(a, l) with x the plain system account holding l, leaves the
\* store with get(a) = x whether or not a held a record before (the old record
\* is replaced as a whole), balance(a) = the balance field of x, and the
\* record, or the absence, of every other address as it was.
C16_PointWrite ==
    [][\A a \in Addresses, x \in Account :
          ctx_add_account(a, x) =>
              /\ get_account(accounts', a) = Some(x)
              /\ get_balance(accounts', a) = Some(x.lamports)
              /\ get_balance(accounts', a) = Some(get_account(accounts', a)[1].lamports)
              /\ \A b \in Addresses \ {a} :
                     /\ get_account(accounts', b) = get_account(accounts, b)
                     /\ get_balance(accounts', b) = get_balance(accounts, b)]_vars

\* Witness of C16: fund_account with 0 on an address that held a token-owned
\* account with a balance; the address now holds the plain system account.
C16_Witness ==
    /\ last_op # None
    /\ last_op[1].op = "add_account"
    /\ last_op[1].replaced = Some([lamports |-> 1, owner |-> "token"])
    /\ last_op[1].account = system_account_with_lamports(0)
    /\ get_account(accounts, last_op[1].address) = Some(system_account_with_lamports(0))
    /\ \E b \in DOMAIN accounts : b # last_op[1].address

\* C17: absence is distinct from a zero balance. In every reachable state the
\* lookups answer 'not present' (None) for an address the store does not hold
\* and Some(record) / Some(balance) for one it holds, a balance of 0 included.
\* An answered lookup agrees with the history of writes: an address that no
\* caller write or committed transaction has written, or that only a rolled
\* back transaction wrote, is 'not present'. The answer is an Option, never an
\* error, and the lookup leaves the store as that history determines it.
C17_AbsenceDistinct ==
    /\ None # Some(0)
    /\ \A a \in Addresses :
           IF a \in DOMAIN accounts
           THEN /\ get_account(accounts, a) = Some(accounts[a])
                /\ get_balance(accounts, a) = Some(accounts[a].lamports)
           ELSE /\ get_account(accounts, a) = None
                /\ get_balance(accounts, a) = None
    /\ (last_op # None /\ last_op[1].op \in {"get_account", "get_balance"}) =>
           LET a == last_op[1].address
           IN  /\ SameStore(accounts, ledger)
               /\ a \notin DOMAIN ledger => last_op[1].answer = None
               /\ (a \in DOMAIN ledger /\ last_op[1].op = "get_account") =>
                      last_op[1].answer = Some(ledger[a])
               /\ (a \in DOMAIN ledger /\ last_op[1].op = "get_balance") =>
                      last_op[1].answer = Some(ledger[a].lamports)

\* Witness of C17: after a rolled back transaction whose instruction had
\* created an account, the balance lookup of that address answers 'not
\* present', while another address is present with balance 0.
C17_Witness ==
    /\ pc = "done"
    /\ Restores = 1
    /\ last_op # None
    /\ last_op[1].op = "get_balance"
    /\ last_op[1].answer = None
    /\ \E j \in 1..Len(Calls) : last_op[1].address \in DOMAIN Calls[j].after
    /\ \E b \in Addresses : get_balance(accounts, b) = Some(0)

\* The lookups that can fail for a missing entity.
FailingLookup ==
    \/ \E a \in Addresses : get_token_balance(a)
    \/ \E n \in Names, m \in Messages : sign_with(n, m)
    \/ \E n \in Names : get_keypair_pubkey(n)

\* C18: lookup failures are side-effect free. get_token_balance of an absent
\* account answers AccountNotFound, sign_with and get_keypair_pubkey of an
\* unknown name answer KeypairNotFound, and the step that answers takes no
\* snapshot, restores nothing, and leaves the account store, the keypair
\* registry and the transaction in progress as they were.
C18_LookupFailures ==
    /\ [](last_op # None =>
            /\ (last_op[1].op = "get_token_balance"
                /\ last_op[1].address \notin DOMAIN accounts) =>
                   last_op[1].answer = [tag |-> "Err", kind |-> "AccountNotFound",
                                        error |-> last_op[1].address]
            /\ (last_op[1].op \in {"sign_with", "get_keypair_pubkey"}
                /\ last_op[1].name \notin DOMAIN keypairs) =>
                   last_op[1].answer = [tag |-> "Err", kind |-> "KeypairNotFound",
                                        error |-> last_op[1].name]
            /\ last_op[1].op \in {"get_token_balance", "sign_with", "get_keypair_pubkey"} =>
                   /\ SameStore(accounts, ledger)
                   /\ (last_op[1].answer.tag = "Err"
                       /\ last_op[1].answer.kind = "AccountNotFound") =>
                          last_op[1].address \notin DOMAIN accounts
                   /\ (last_op[1].answer.tag = "Err"
                       /\ last_op[1].answer.kind = "KeypairNotFound") =>
                          last_op[1].name \notin DOMAIN keypairs)
    /\ [][FailingLookup =>
            /\ accounts' = accounts
            /\ keypairs' = keypairs
            /\ snapshot' = snapshot
            /\ log' = log
            /\ pc' = pc]_vars

\* Witness of C18: get_token_balance of an absent address answered
\* AccountNotFound while the store holds another account and the registry
\* holds a keypair under one name only.
C18_Witness ==
    /\ last_op # None
    /\ last_op[1].op = "get_token_balance"
    /\ last_op[1].answer.tag = "Err"
    /\ last_op[1].answer.kind = "AccountNotFound"
    /\ DOMAIN accounts # {}
    /\ DOMAIN keypairs = {"payer"}

\* C19: keypair registry. A store_keypair(name, k) step makes name resolve to
\* k and leaves every other name as it was; no other step, a transaction's
\* snapshot and restore included, changes the registry. So at every later
\* point get_keypair_pubkey(name) answers the public key of the keypair stored
\* last under that name, and sign_with(name, m) answers a 64-byte signature of
\* m made with that keypair.
C19_KeypairRegistry ==
    /\ [][\A n \in Names, k \in Keypairs :
            store_keypair(n, k) =>
                /\ registry_get(keypairs', n) = Some(k)
                /\ \A o \in Names \ {n} :
                       registry_get(keypairs', o) = registry_get(keypairs, o)]_vars
    /\ [][(~ \E n \in Names, k \in Keypairs : store_keypair(n, k)) =>
            keypairs' = keypairs]_vars
    /\ [](last_op # None =>
            /\ (last_op[1].op = "store_keypair") =>
                   /\ last_op[1].answer.tag = "Ok"
                   /\ last_op[1].name \in DOMAIN keypairs
            /\ (last_op[1].op = "get_keypair_pubkey"
                /\ last_op[1].name \in DOMAIN keypairs) =>
                   last_op[1].answer =
                       [tag |-> "Ok", value |-> pubkey(keypairs[last_op[1].name])]
            /\ (last_op[1].op = "sign_with"
                /\ last_op[1].name \in DOMAIN keypairs) =>
                   /\ last_op[1].answer.tag = "Ok"
                   /\ last_op[1].answer.value.len = 64
                   /\ last_op[1].answer.value.signer = pubkey(keypairs[last_op[1].name])
                   /\ last_op[1].answer.value.message = last_op[1].message)

\* Witness of C19: after a transaction that was rolled back, sign_with under
\* one name answers a signature made with the keypair stored under it, which
\* is not the keypair the other name resolves to.
C19_Witness ==
    /\ pc = "done"
    /\ Restores = 1
    /\ DOMAIN keypairs = Names
    /\ keypairs["payer"] = "kp2"
    /\ keypairs["mint"] = "kp1"
    /\ last_op # None
    /\ last_op[1].op = "sign_with"
    /\ last_op[1].name = "payer"
    /\ last_op[1].answer.tag = "Ok"
    /\ last_op[1].answer.value.signer = pubkey("kp2")

\* C20: history-level atomicity. Over any sequence of transactions, in any mix
\* of the three modes, interleaved with direct writes of the caller, the store
\* between transactions equals the ledger: the caller's writes and the
\* instructions of the committed transactions only (execute without a failure,
\* execute_allow_failures without a failure), applied in order. A failed
\* strict or tolerant transaction and every dry run leave it as it was, and
\* while a transaction runs its snapshot holds the whole ledger, so a rollback
\* undoes nothing from before that transaction.
C20_HistoryAtomicity ==
    /\ pc \in {"idle", "building", "done"} => SameStore(accounts, ledger)
    /\ pc \in {"loop", "exit"} =>
           /\ SameStore(pre, ledger)
           /\ snapshot = Some(ledger)
    /\ (pc = "done" /\ Restores = 1) => SameStore(accounts, pre)

\* Witness of C20: a transaction committed, then the caller wrote, then a
\* tolerant transaction changed the store, failed and was rolled back; the
\* store is the ledger, which still holds what came before.
C20_Witness ==
    /\ trail = "written"
    /\ Returned("execute_allow_failures")
    /\ Restores = 1
    /\ \E j \in 1..Len(Calls) : Calls[j].after # pre
    /\ SameStore(accounts, ledger)
    /\ DOMAIN ledger = Addresses

\* C21: snapshot and restore bracket the whole sequence. In every non-empty
\* transaction of any mode the first store-level event is the one snapshot,
\* every event between it and the return is an adapter call, and at most one
\* restore happens, as the last event, in the step that returns the result; no
\* snapshot or restore lies between two adapter calls.
C21_Bracket ==
    /\ (mode # "none" /\ Len(instructions) = 0) => log = <<>>
    /\ (mode # "none" /\ Len(instructions) > 0) =>
           /\ Len(log) >= 1
           /\ log[1] = EvSnapshot
           /\ Snapshots = 1
           /\ Restores <= 1
           /\ \A i \in 2..Len(log) :
                  \/ IsCall(log[i])
                  \/ (i = Len(log) /\ log[i] = EvRestore /\ pc = "done")
           /\ pc \in {"loop", "exit"} => Restores = 0
           /\ pc = "done" => (ret # None /\ Len(Calls) >= 1)

\* Witness of C21: a tolerant transaction of two instructions returned after
\* snapshot, call, call, restore, in that order.
C21_Witness ==
    /\ Returned("execute_allow_failures")
    /\ Len(log) = 4
    /\ log[1] = EvSnapshot
    /\ IsCall(log[2])
    /\ IsCall(log[3])
    /\ log[4] = EvRestore

\* The operations that take the keypair registry's lock.
RegistryOps == {"store_keypair", "sign_with", "get_keypair_pubkey"}

AdapterCallStep ==
    \/ (Len(log') = Len(log) + 1 /\ IsCall(log'[Len(log')]))
    \/ (last_op' # last_op /\ last_op' # None
            /\ last_op'[1].op = "process_instruction")

\* C24: the keypair registry lock is never held across an execution-engine
\* call. While a transaction's adapter calls are in progress, and in every step
\* that makes an adapter call, the calling operation holds neither the read nor
\* the write guard and is not waiting for one; every registry operation has
\* released the lock when it returns, so the caller holds no guard in any state
\* between operations.
C24_NoGuardAcrossCalls ==
    /\ [](/\ lock.holders \cap CallerGuards = {}
          /\ pc \in {"loop", "exit"} => lock.waiting = None)
    /\ [][/\ AdapterCallStep =>
                 /\ lock.holders \cap CallerGuards = {}
                 /\ lock'.holders \cap CallerGuards = {}
                 /\ lock.waiting = None
                 /\ lock' = lock
          /\ (last_op' # last_op /\ last_op' # None
                  /\ last_op'[1].op \in RegistryOps) =>
                 lock'.holders \cap CallerGuards = {}]_vars

\* A transaction's adapter call has been made with keypairs in the registry,
\* while another holder has the write lock.
C24_Witness ==
    /\ pc = "exit"
    /\ Len(Calls) >= 1
    /\ keypairs # EmptyRegistry
    /\ lock.holders = {"other_write"}

\* The calls of the current transaction that failed, by position in Calls.
FailedPositions == { j \in 1..Len(Calls) : is_err(Calls[j].result.program_result) }

\* C25: every transaction completes. Once a transaction in any mode has
\* started on its instructions it eventually returns its outcome (each
\* adapter call returning). Over n instructions it makes at most n adapter
\* calls, on instructions 0, 1, 2, ... in list order and each at most once;
\* when it has returned it has made exactly n calls in tolerant mode, and in
\* strict and dry-run mode exactly n calls if none failed and exactly k+1 calls
\* if the first failure was at position k.
C25_Completes ==
    /\ [](mode # "none" =>
            /\ Len(Calls) <= Len(instructions)
            /\ \A j \in 1..Len(Calls) :
                   /\ Calls[j].index = j - 1
                   /\ Calls[j].instruction = instructions[j]
            /\ pc = "done" =>
                   /\ ret # None
                   /\ IF mode = "execute_allow_failures" \/ FailedPositions = {}
                      THEN Len(Calls) = Len(instructions)
                      ELSE FailedPositions = {Len(Calls)})
    /\ (pc \in {"loop", "exit"}) ~> (pc = "done" /\ ret # None)

\* A strict transaction over two instructions has returned after one adapter
\* call, because its first instruction failed.
C25_Witness ==
    /\ Returned("execute")
    /\ Len(instructions) = 2
    /\ Len(Calls) = 1
    /\ FailedPositions = {1}

\* The store the j-th adapter call of the current transaction should have
\* run against if nothing touched the store between the calls.
StoreBeforeCall(j) == IF j = 1 THEN pre ELSE Calls[j - 1].after

\* C26: tolerant mode performs no intermediate restore. While
\* execute_allow_failures is looping no restore has happened and the store is
\* exactly what the last adapter call left, failed or not; every call's
\* outcome is an outcome of the engine on the store the preceding call left
\* (the store at the snapshot for position 0); the only restore comes after
\* the call on the last instruction, when the transaction returns.
C26_NoIntermediateRestore ==
    mode = "execute_allow_failures" =>
        /\ pc \in {"loop", "exit"} =>
               /\ Restores = 0
               /\ accounts = (IF Len(Calls) = 0 THEN pre
                              ELSE Calls[Len(Calls)].after)
        /\ \A j \in 1..Len(Calls) :
               \E o \in process_instruction_internal(StoreBeforeCall(j),
                                                     Calls[j].instruction) :
                   /\ o.result = Calls[j].result
                   /\ o.accounts = Calls[j].after
        /\ Restores <= 1
        /\ Restores = 1 =>
               /\ pc = "done"
               /\ log[Len(log)] = EvRestore
               /\ Len(Calls) = Len(instructions)

\* A tolerant transaction whose first instruction failed and left a partial
\* mutation behind, and whose second instruction, run on that store, got an
\* outcome other than the one it has on the store of the snapshot.
C26_Witness ==
    /\ Returned("execute_allow_failures")
    /\ Len(Calls) = 2
    /\ is_err(Calls[1].result.program_result)
    /\ Calls[1].after # pre
    /\ Calls[2].result.program_result # ProgramResultOf(pre, instructions[2])
    /\ Restores = 1

\* The results of the adapter calls the current transaction has made.
CallResults == [j \in 1..Len(Calls) |-> Calls[j].result]

\* C27 as stated: metric accumulation stays exact in 64 bits. For all metric
\* values in the u64 range the running totals of compute units and execution
\* time are the arithmetic sums over the adapter calls made so far, never a
\* wrapped value, and the accumulation never aborts the transaction.
C27_Original ==
    /\ ret # None => ret[1].tag # "Panic"
    /\ mode # "none" =>
           /\ total_compute_units.hi = SumHi(CallResults, "compute_units_consumed")
           /\ total_compute_units.lo = SumLo(CallResults, "compute_units_consumed")
           /\ total_execution_time.hi = SumHi(CallResults, "execution_time")
           /\ total_execution_time.lo = SumLo(CallResults, "execution_time")

\* A build with overflow checks panicked in the loop of a tolerant transaction
\* after a failed first instruction: no restore, the store keeps what the two
\* calls wrote.
C27_Aborted ==
    /\ setup.overflow_checks
    /\ Returned("execute_allow_failures")
    /\ ret[1].tag = "Panic"
    /\ Len(Calls) = 2
    /\ is_err(Calls[1].result.program_result)
    /\ Restores = 0
    /\ accounts # pre

\* Positions in the log where the second transaction returned Ok.
PeerCommits == { i \in 1..Len(log) : log[i].op = "peer_commit" }

\* Addresses whose account a committed second transaction wrote.
PeerWrote(i) ==
    { a \in DOMAIN log[i].after :
        a \notin DOMAIN log[i].before \/ log[i].before[a] # log[i].after[a] }

====
